---- MODULE Spec2Model ----
(***************************************************************************)
(* Model of src/app.py: the funding-rate aggregation engine process_data   *)
(* (window intersection, daily sums, grouped cumulative sums, self-join)   *)
(* and the Streamlit script that loads the event table, resolves the       *)
(* selection defaults from the query parameters and renders the chart.     *)
(*                                                                         *)
(* Strings (asset symbols, venue identifiers) are sequences of character   *)
(* codes, so that Python's lexicographic string order is computed and not  *)
(* assumed.  Dates are day numbers; day 1 is 2025-01-01.  Funding rates    *)
(* are integers (a fixed-point unit of the rate).                          *)
(***************************************************************************)
EXTENDS Integers, Sequences, FiniteSets, TLC

VARIABLES pc, df, selected_start_date, df_tmp, base_query, sorted_bases,
          base_default, asset, exchange_pairs, exchange_a_query,
          exchange_b_query, exchange_pair, exchange_pair_index, exchange_a,
          exchange_b, min_date, max_date, subset, daily_sum, df_to_display,
          log, exception

vars == <<pc, df, selected_start_date, df_tmp, base_query, sorted_bases,
          base_default, asset, exchange_pairs, exchange_a_query,
          exchange_b_query, exchange_pair, exchange_pair_index, exchange_a,
          exchange_b, min_date, max_date, subset, daily_sum, df_to_display,
          log, exception>>

-----------------------------------------------------------------------------
(* Bounds of the model *)

\* rows of the table the script loads
MaxRows == 3

\* rows of the table handed to process_data on its own
MaxEvents == 4

\* last day with events
MaxDay == 4

-----------------------------------------------------------------------------
(* Input universe *)

ADA == <<65, 68, 65>>

BTC == <<66, 84, 67>>

ETH == <<69, 84, 72>>

ExA == <<97>>

ExAB == <<97, 98>>

ExB == <<98>>

Assets == {ADA, BTC, ETH}

Venues == {ExA, ExAB, ExB}

Days == 1..MaxDay

\* the funding rate of the events of a venue on a day: negative and positive
\* rates occur, and the rates of one venue over some days can cancel
RateAt(e, d) == IF e = ExA THEN 2 * d - 3 ELSE IF e = ExAB THEN 0 - d ELSE 4

Row(b, e, d, r) == [Base |-> b, Exchange |-> e, Date |-> d, FundingRate |-> r]

\* Event tables handed to process_data: the asset BTC on one venue from the
\* first day on and on another up to the last day, one event of a third venue
\* and one event of another asset
PDEvents ==
    {Row(BTC, ExA, d, RateAt(ExA, d)) : d \in Days \ {MaxDay}}
        \cup {Row(BTC, ExAB, d, RateAt(ExAB, d)) : d \in Days \ {1}}
        \cup {Row(BTC, ExB, 2, RateAt(ExB, 2)), Row(ETH, ExA, 1, 5)}

\* the venue arguments of process_data: two distinct venues, in either order
PDVenues == {ExA, ExAB}

PDTables == UNION {[1..n -> PDEvents] : n \in 0..MaxEvents}

\* Event tables the script loads: BTC on three venues, on the first or the
\* last day, and single events of two other assets
Events ==
    {Row(BTC, ExA, 1, 1), Row(BTC, ExA, MaxDay, -1), Row(BTC, ExAB, MaxDay, 2),
     Row(BTC, ExB, 1, 3), Row(ETH, ExA, 1, 2), Row(ADA, ExB, MaxDay, -1)}

Tables == UNION {[1..n -> Events] : n \in 0..MaxRows}

\* st.date_input: the first day, the last day and the day after the last event
StartDates == {1, MaxDay, MaxDay + 1}

\* an optional value: <<>> is an absent key (None), <<v>> the supplied string v
Option(S) == {<<>>} \cup {<<v>> : v \in S}

\* st.query_params: each key absent, or a string (the empty string included)
BaseParams == Option(Assets)

ExchangeParams == Option(Venues \cup {<<>>})

-----------------------------------------------------------------------------
(* Python and pandas primitives *)

\* str.__lt__: code-point lexicographic order, a proper prefix is smaller
StrLT(s, t) ==
    \E k \in 1..Len(t) :
        /\ k <= Len(s) + 1
        /\ \A i \in 1..(k - 1) : s[i] = t[i]
        /\ (k = Len(s) + 1 \/ s[k] < t[k])

\* tuple.__lt__ on 2-tuples of strings
TupleLT(p, q) == StrLT(p[1], q[1]) \/ (p[1] = q[1] /\ StrLT(p[2], q[2]))

\* pandas.unique / Series.unique: distinct values in order of first appearance
RECURSIVE Unique(_)
Unique(s) ==
    IF s = <<>> THEN <<>>
    ELSE LET init == Unique(SubSeq(s, 1, Len(s) - 1))
             last == s[Len(s)]
         IN  IF \E i \in 1..Len(init) : init[i] = last THEN init
             ELSE Append(init, last)

Column(t, c) == [i \in 1..Len(t) |-> t[i][c]]

\* itertools.combinations(xs, 2): pairs (xs[i], xs[j]), i < j, in index order
Combinations2(xs) ==
    LET n == Len(xs)
        idx == [k \in 1..(n * n) |-> <<((k - 1) \div n) + 1, ((k - 1) % n) + 1>>]
        keep == SelectSeq(idx, LAMBDA p : p[1] < p[2])
    IN  [k \in 1..Len(keep) |-> <<xs[keep[k][1]], xs[keep[k][2]]>>]

\* list.index, 0-based; -1 stands for ValueError
IndexOf(xs, x) ==
    IF \E i \in 1..Len(xs) : xs[i] = x
    THEN (CHOOSE i \in 1..Len(xs) : xs[i] = x /\ \A j \in 1..(i - 1) : xs[j] # x) - 1
    ELSE -1

InSeq(xs, x) == \E i \in 1..Len(xs) : xs[i] = x

\* pandas NaT: the min/max of an empty datetime column
NaT == 0

\* Timestamp comparisons: any comparison with NaT is False
DateGT(x, y) == x # NaT /\ y # NaT /\ x > y

DateLT(x, y) == x # NaT /\ y # NaT /\ x < y

DateGE(x, y) == x # NaT /\ y # NaT /\ x >= y

DateLE(x, y) == x # NaT /\ y # NaT /\ x <= y

\* builtin max(x, y): keeps x unless y > x
PyMax(x, y) == IF DateGT(y, x) THEN y ELSE x

\* builtin min(x, y): keeps x unless y < x
PyMin(x, y) == IF DateLT(y, x) THEN y ELSE x

SetMin(S) == CHOOSE x \in S : \A y \in S : x <= y

SetMax(S) == CHOOSE x \in S : \A y \in S : x >= y

RECURSIVE SumRates(_)
SumRates(rows) ==
    IF rows = <<>> THEN 0
    ELSE rows[1].FundingRate + SumRates(Tail(rows))

-----------------------------------------------------------------------------
(* process_data and its helper *)

get_min_max_date(t, a, exchange) ==
    LET filtered == SelectSeq(t, LAMBDA r : r.Base = a /\ r.Exchange = exchange)
        dates == {filtered[i].Date : i \in 1..Len(filtered)}
    IN  [min_date |-> IF dates = {} THEN NaT ELSE SetMin(dates),
         max_date |-> IF dates = {} THEN NaT ELSE SetMax(dates)]

\* mutant: the window starts at the earlier of the two first days
WindowStartEarliest(t, a, ea, eb) ==
    PyMin(get_min_max_date(t, a, ea).min_date, get_min_max_date(t, a, eb).min_date)

WindowStart(t, a, ea, eb) ==
    PyMax(get_min_max_date(t, a, ea).min_date, get_min_max_date(t, a, eb).min_date)

WindowEnd(t, a, ea, eb) ==
    PyMin(get_min_max_date(t, a, ea).max_date, get_min_max_date(t, a, eb).max_date)

Subset(t, a, ea, eb, lo, hi) ==
    SelectSeq(t, LAMBDA r : /\ DateGE(r.Date, lo)
                            /\ DateLE(r.Date, hi)
                            /\ r.Base = a
                            /\ (r.Exchange = ea \/ r.Exchange = eb))

\* order of the group keys (Base, Exchange, Date)
KeyLT(k1, k2) ==
    \/ StrLT(k1.Base, k2.Base)
    \/ k1.Base = k2.Base /\ StrLT(k1.Exchange, k2.Exchange)
    \/ k1.Base = k2.Base /\ k1.Exchange = k2.Exchange /\ k1.Date < k2.Date

\* groupby(["Base","Exchange","Date"])["FundingRate"].sum().reset_index()
DailySum(sub) ==
    LET keys == Unique([i \in 1..Len(sub) |->
                    [Base |-> sub[i].Base, Exchange |-> sub[i].Exchange,
                     Date |-> sub[i].Date]])
        sorted == SortSeq(keys, KeyLT)
    IN  [i \in 1..Len(sorted) |->
            [Base |-> sorted[i].Base, Exchange |-> sorted[i].Exchange,
             Date |-> sorted[i].Date,
             DailyFunding |-> SumRates(SelectSeq(sub, LAMBDA r :
                 /\ r.Base = sorted[i].Base
                 /\ r.Exchange = sorted[i].Exchange
                 /\ r.Date = sorted[i].Date))]]

SortValues(ds) == SortSeq(ds, KeyLT)

\* mutant: the running total is grouped by Base only
RECURSIVE SumDailyByBase(_, _, _)
SumDailyByBase(ds, i, k) ==
    IF i = 0 THEN 0
    ELSE (IF ds[i].Base = ds[k].Base THEN ds[i].DailyFunding ELSE 0)
             + SumDailyByBase(ds, i - 1, k)

RECURSIVE SumDaily(_, _, _)
SumDaily(ds, i, k) ==
    IF i = 0 THEN 0
    ELSE (IF ds[i].Base = ds[k].Base /\ ds[i].Exchange = ds[k].Exchange
          THEN ds[i].DailyFunding ELSE 0) + SumDaily(ds, i - 1, k)

\* groupby(["Base","Exchange"])["DailyFunding"].cumsum(), in row order
CumSum(ds) ==
    [k \in 1..Len(ds) |->
        [Base |-> ds[k].Base, Exchange |-> ds[k].Exchange, Date |-> ds[k].Date,
         DailyFunding |-> ds[k].DailyFunding,
         CumulativeFunding |-> SumDaily(ds, k, k)]]

\* mutant: the join key leaves out the day
JoinOnBase(l, r) == l.Base = r.Base

JoinOn(l, r) == l.Base = r.Base /\ l.Date = r.Date

\* daily_sum.merge(daily_sum, on=["Base","Date"], suffixes=("_a","_b"))
Merge(ds) ==
    LET n == Len(ds)
        idx == [k \in 1..(n * n) |-> <<((k - 1) \div n) + 1, ((k - 1) % n) + 1>>]
        keep == SelectSeq(idx, LAMBDA p : JoinOn(ds[p[1]], ds[p[2]]))
    IN  [k \in 1..Len(keep) |->
            LET l == ds[keep[k][1]]
                r == ds[keep[k][2]]
            IN  [Base |-> l.Base, Date |-> l.Date,
                 Exchange_a |-> l.Exchange, DailyFunding_a |-> l.DailyFunding,
                 CumulativeFunding_a |-> l.CumulativeFunding,
                 Exchange_b |-> r.Exchange, DailyFunding_b |-> r.DailyFunding,
                 CumulativeFunding_b |-> r.CumulativeFunding]]

\* mutant: any two different venues are kept, in both orders
CanonicalOrderDistinct(m) == m.Exchange_a # m.Exchange_b

CanonicalOrder(m) == StrLT(m.Exchange_a, m.Exchange_b)

\* mutant: both advantage fields computed as b minus a
AdvantageSameSign(m) ==
    [Base |-> m.Base, Date |-> m.Date,
     Exchange_a |-> m.Exchange_a, DailyFunding_a |-> m.DailyFunding_a,
     CumulativeFunding_a |-> m.CumulativeFunding_a,
     Exchange_b |-> m.Exchange_b, DailyFunding_b |-> m.DailyFunding_b,
     CumulativeFunding_b |-> m.CumulativeFunding_b,
     along_bshort |-> m.CumulativeFunding_b - m.CumulativeFunding_a,
     blong_ashort |-> m.CumulativeFunding_b - m.CumulativeFunding_a]

Advantage(m) ==
    [Base |-> m.Base, Date |-> m.Date,
     Exchange_a |-> m.Exchange_a, DailyFunding_a |-> m.DailyFunding_a,
     CumulativeFunding_a |-> m.CumulativeFunding_a,
     Exchange_b |-> m.Exchange_b, DailyFunding_b |-> m.DailyFunding_b,
     CumulativeFunding_b |-> m.CumulativeFunding_b,
     along_bshort |-> m.CumulativeFunding_b - m.CumulativeFunding_a,
     blong_ashort |-> m.CumulativeFunding_a - m.CumulativeFunding_b]

PairDf(merged) ==
    LET kept == SelectSeq(merged, CanonicalOrder)
    IN  [k \in 1..Len(kept) |-> Advantage(kept[k])]

RequestedPair(p, a, ea, eb) ==
    p.Base = a /\ p.Exchange_a = ea /\ p.Exchange_b = eb

process_data(t, a, ea, eb) ==
    LET lo == WindowStart(t, a, ea, eb)
        hi == WindowEnd(t, a, ea, eb)
        sub == Subset(t, a, ea, eb, lo, hi)
        ds == CumSum(SortValues(DailySum(sub)))
        pair_df == PairDf(Merge(ds))
    IN  [min_date |-> lo, max_date |-> hi, subset |-> sub, daily_sum |-> ds,
         result |-> SelectSeq(pair_df, LAMBDA p : RequestedPair(p, a, ea, eb))]

-----------------------------------------------------------------------------
(* The script, top to bottom *)

\* query_params.get(key, default) of an optional value
Get(q, default) == IF q = <<>> THEN default ELSE q[1]

default_asset == BTC

Init ==
    /\ pc = "load"
    /\ df = <<>>
    /\ selected_start_date = NaT
    /\ df_tmp = <<>>
    /\ base_query = <<>>
    /\ sorted_bases = <<>>
    /\ base_default = <<>>
    /\ asset = <<>>
    /\ exchange_pairs = <<>>
    /\ exchange_a_query = <<>>
    /\ exchange_b_query = <<>>
    /\ exchange_pair = <<>>
    /\ exchange_pair_index = 0
    /\ exchange_a = <<>>
    /\ exchange_b = <<>>
    /\ min_date = NaT
    /\ max_date = NaT
    /\ subset = <<>>
    /\ daily_sum = <<>>
    /\ df_to_display = <<>>
    /\ log = <<>>
    /\ exception = "none"

pd_vars == <<min_date, max_date, subset, daily_sum, df_to_display>>

sel_vars == <<base_query, sorted_bases, base_default, asset, exchange_pairs,
              exchange_a_query, exchange_b_query, exchange_pair,
              exchange_pair_index, exchange_a, exchange_b>>

\* lines 96-97: load_data returns the table
LoadDataOk ==
    /\ pc = "load"
    /\ \E t \in Tables : df' = t
    /\ pc' = "start_date"
    /\ UNCHANGED <<selected_start_date, df_tmp, sel_vars, pd_vars, log, exception>>

\* lines 98-100: FileNotFoundError is reported and the script stops
LoadDataNotFound ==
    /\ pc = "load"
    /\ log' = log \o <<"st.error", "st.stop">>
    /\ pc' = "stopped"
    /\ UNCHANGED <<df, selected_start_date, df_tmp, sel_vars, pd_vars, exception>>

\* lines 96-98: any other exception of load_data is not caught
LoadDataError ==
    /\ pc = "load"
    /\ exception' = "load_data"
    /\ pc' = "crashed"
    /\ UNCHANGED <<df, selected_start_date, df_tmp, sel_vars, pd_vars, log>>

\* lines 102-115: the start-date floor; Timestamp >= midnight of d iff Date >= d
SelectStartDate ==
    /\ pc = "start_date"
    /\ \E d \in StartDates :
        /\ selected_start_date' = d
        /\ df_tmp' = SelectSeq(df, LAMBDA r : r.Date >= d)
    /\ pc' = "base"
    /\ UNCHANGED <<df, sel_vars, pd_vars, log, exception>>

SortedBases(t) == SortSeq(Unique(Column(t, "Base")), StrLT)

\* lines 117-126: the default asset; sorted_bases[0] raises IndexError on an empty list
ResolveBase ==
    /\ pc = "base"
    /\ \E q \in BaseParams :
        LET bases == SortedBases(df_tmp)
            requested == Get(q, default_asset)
        IN  /\ base_query' = q
            /\ sorted_bases' = bases
            /\ IF InSeq(bases, requested)
               THEN base_default' = requested /\ pc' = "asset"
               ELSE IF bases = <<>>
                    THEN base_default' = requested /\ pc' = "crashed"
                    ELSE base_default' = bases[1] /\ pc' = "asset"
            /\ exception' = IF bases = <<>> THEN "IndexError" ELSE exception
    /\ UNCHANGED <<df, selected_start_date, df_tmp, asset, exchange_pairs,
                   exchange_a_query, exchange_b_query, exchange_pair,
                   exchange_pair_index, exchange_a, exchange_b, pd_vars, log>>

\* lines 128-131: the asset select box, base_default pre-selected
SelectAsset ==
    /\ pc = "asset"
    /\ \E x \in {sorted_bases[i] : i \in 1..Len(sorted_bases)} : asset' = x
    /\ pc' = "pairs"
    /\ UNCHANGED <<df, selected_start_date, df_tmp, base_query, sorted_bases,
                   base_default, exchange_pairs, exchange_a_query,
                   exchange_b_query, exchange_pair, exchange_pair_index,
                   exchange_a, exchange_b, pd_vars, log, exception>>

\* lines 133-135
ExchangePairs(t, a) ==
    SortSeq(Combinations2(Unique(Column(SelectSeq(t, LAMBDA r : r.Base = a),
                                        "Exchange"))), TupleLT)

\* mutant: the script goes on with an empty pair list
ComputeExchangePairsNoStop ==
    /\ pc = "pairs"
    /\ exchange_pairs' = ExchangePairs(df_tmp, asset)
    /\ pc' = "pair_index"
    /\ UNCHANGED <<df, selected_start_date, df_tmp, base_query, sorted_bases,
                   base_default, asset, exchange_a_query, exchange_b_query,
                   exchange_pair, exchange_pair_index, exchange_a, exchange_b,
                   pd_vars, log, exception>>

\* lines 133-139: the pair list; an empty list is reported and the script stops
ComputeExchangePairs ==
    /\ pc = "pairs"
    /\ exchange_pairs' = ExchangePairs(df_tmp, asset)
    /\ IF exchange_pairs' = <<>>
       THEN log' = log \o <<"st.warning", "st.stop">> /\ pc' = "stopped"
       ELSE log' = log /\ pc' = "pair_index"
    /\ UNCHANGED <<df, selected_start_date, df_tmp, base_query, sorted_bases,
                   base_default, asset, exchange_a_query, exchange_b_query,
                   exchange_pair, exchange_pair_index, exchange_a, exchange_b,
                   pd_vars, exception>>

\* tuple(sorted((x, y)))
SortedPair(x, y) == IF StrLT(y, x) THEN <<y, x>> ELSE <<x, y>>

\* lines 141-149: exchange_pair is bound only when both parameters are supplied
\* and non-empty; <<>> stands for the unbound name
QueryPair(qa, qb) ==
    IF qa # <<>> /\ qb # <<>> /\ qa[1] # <<>> /\ qb[1] # <<>>
    THEN SortedPair(qa[1], qb[1])
    ELSE <<>>

\* lines 151-154: NameError and ValueError are both caught, index 0
PairIndex(pairs, pair) ==
    IF pair # <<>> /\ IndexOf(pairs, pair) >= 0 THEN IndexOf(pairs, pair) ELSE 0

ResolvePairIndex ==
    /\ pc = "pair_index"
    /\ \E qa \in ExchangeParams, qb \in ExchangeParams :
        /\ exchange_a_query' = qa
        /\ exchange_b_query' = qb
        /\ exchange_pair' = QueryPair(qa, qb)
        /\ exchange_pair_index' = PairIndex(exchange_pairs, QueryPair(qa, qb))
    /\ pc' = "pair"
    /\ UNCHANGED <<df, selected_start_date, df_tmp, base_query, sorted_bases,
                   base_default, asset, exchange_pairs, exchange_a, exchange_b,
                   pd_vars, log, exception>>

\* lines 156-164: the pair select box, exchange_pairs[exchange_pair_index] pre-selected
SelectPair ==
    /\ pc = "pair"
    /\ \E i \in 1..Len(exchange_pairs) :
        /\ exchange_pair' = exchange_pairs[i]
        /\ exchange_a' = exchange_pairs[i][1]
        /\ exchange_b' = exchange_pairs[i][2]
    /\ pc' = "process"
    /\ UNCHANGED <<df, selected_start_date, df_tmp, base_query, sorted_bases,
                   base_default, asset, exchange_pairs, exchange_a_query,
                   exchange_b_query, exchange_pair_index, pd_vars, log, exception>>

RunProcessData ==
    \E out \in {process_data(df_tmp, asset, exchange_a, exchange_b)} :
        /\ min_date' = out.min_date
        /\ max_date' = out.max_date
        /\ subset' = out.subset
        /\ daily_sum' = out.daily_sum
        /\ df_to_display' = out.result

\* lines 166-167
CallProcessData ==
    /\ pc = "process"
    /\ RunProcessData
    /\ log' = Append(log, "process_data")
    /\ pc' = "chart"
    /\ UNCHANGED <<df, selected_start_date, df_tmp, sel_vars, exception>>

\* lines 169-254
RenderChart ==
    /\ pc = "chart"
    /\ log' = Append(log, "st.plotly_chart")
    /\ pc' = "rendered"
    /\ UNCHANGED <<df, selected_start_date, df_tmp, sel_vars, pd_vars, exception>>

Next ==
    \/ LoadDataOk
    \/ LoadDataNotFound
    \/ LoadDataError
    \/ SelectStartDate
    \/ ResolveBase
    \/ SelectAsset
    \/ ComputeExchangePairs
    \/ ResolvePairIndex
    \/ SelectPair
    \/ CallProcessData
    \/ RenderChart

Spec == Init /\ [][Next]_vars

-----------------------------------------------------------------------------
(* process_data on its own: any table, any asset, any two venue arguments *)

InitPD ==
    /\ pc = "pd_call"
    /\ df = <<>>
    /\ selected_start_date = NaT
    /\ df_tmp \in PDTables
    /\ base_query = <<>>
    /\ sorted_bases = <<>>
    /\ base_default = <<>>
    /\ asset = BTC
    /\ exchange_pairs = <<>>
    /\ exchange_a_query = <<>>
    /\ exchange_b_query = <<>>
    /\ exchange_pair = <<>>
    /\ exchange_pair_index = 0
    /\ exchange_a \in PDVenues
    /\ exchange_b \in PDVenues \ {exchange_a}
    /\ min_date = NaT
    /\ max_date = NaT
    /\ subset = <<>>
    /\ daily_sum = <<>>
    /\ df_to_display = <<>>
    /\ log = <<>>
    /\ exception = "none"

ProcessDataCall ==
    /\ pc = "pd_call"
    /\ RunProcessData
    /\ pc' = "pd_return"
    /\ UNCHANGED <<df, selected_start_date, df_tmp, sel_vars, log, exception>>

NextPD == ProcessDataCall

SpecPD == InitPD /\ [][NextPD]_vars

-----------------------------------------------------------------------------
(* What the claims speak of, stated on the event table itself *)

\* process_data has returned
Returned == pc \in {"pd_return", "chart", "rendered"}

RowsOf(t, a, e) == {i \in 1..Len(t) : t[i].Base = a /\ t[i].Exchange = e}

DaysOf(t, a, e) == {t[i].Date : i \in RowsOf(t, a, e)}

HasEvents(t, a, e) == RowsOf(t, a, e) # {}

BothHaveEvents == HasEvents(df_tmp, asset, exchange_a) /\ HasEvents(df_tmp, asset, exchange_b)

\* start = max of the two first days, end = min of the two last days
CommonStart ==
    SetMax({SetMin(DaysOf(df_tmp, asset, exchange_a)),
            SetMin(DaysOf(df_tmp, asset, exchange_b))})

CommonEnd ==
    SetMin({SetMax(DaysOf(df_tmp, asset, exchange_a)),
            SetMax(DaysOf(df_tmp, asset, exchange_b))})

CommonDays ==
    IF BothHaveEvents
    THEN {d \in DaysOf(df_tmp, asset, exchange_a) \cap DaysOf(df_tmp, asset, exchange_b) :
              CommonStart <= d /\ d <= CommonEnd}
    ELSE {}

RECURSIVE RateSum(_, _)
RateSum(t, I) ==
    IF I = {} THEN 0
    ELSE LET i == CHOOSE j \in I : TRUE
         IN  t[i].FundingRate + RateSum(t, I \ {i})

\* the rates of the raw events of (asset a, venue e) on the days lo..hi
DirectSum(t, a, e, lo, hi) ==
    RateSum(t, {i \in RowsOf(t, a, e) : lo <= t[i].Date /\ t[i].Date <= hi})

RECURSIVE DailySumOver(_, _)
DailySumOver(ds, I) ==
    IF I = {} THEN 0
    ELSE LET i == CHOOSE j \in I : TRUE
         IN  ds[i].DailyFunding + DailySumOver(ds, I \ {i})

\* the daily totals of (asset a, venue e) in daily_sum for all days <= d
DailyTotalsUpTo(ds, a, e, d) ==
    DailySumOver(ds, {i \in 1..Len(ds) :
        ds[i].Base = a /\ ds[i].Exchange = e /\ ds[i].Date <= d})

ResultRows == {df_to_display[i] : i \in 1..Len(df_to_display)}

-----------------------------------------------------------------------------
(* Claims *)

\* C1: for any two distinct venues passed to process_data, the days of the
\* result are exactly the days of the common window on which both venues have
\* an event for the asset, each in exactly one row.
C1_ResultDaysAreCommonDays ==
    (Returned /\ exchange_a # exchange_b) =>
        /\ {r.Date : r \in ResultRows} = CommonDays
        /\ \A i, j \in 1..Len(df_to_display) :
               df_to_display[i].Date = df_to_display[j].Date => i = j

\* C2 (as stated): in every result row, each venue's cumulative value on day D
\* is the sum of that venue's daily totals for the days <= D and the sum of the
\* rates of ALL raw events of that (asset, venue) in the table up to day D.
C2_CumulativeOverWholeTable ==
    Returned =>
        \A r \in ResultRows :
            /\ r.CumulativeFunding_a = DailyTotalsUpTo(daily_sum, asset, r.Exchange_a, r.Date)
            /\ r.CumulativeFunding_b = DailyTotalsUpTo(daily_sum, asset, r.Exchange_b, r.Date)
            /\ r.CumulativeFunding_a = DirectSum(df_tmp, asset, r.Exchange_a, 1, r.Date)
            /\ r.CumulativeFunding_b = DirectSum(df_tmp, asset, r.Exchange_b, 1, r.Date)

\* C2 (amended): in every result row, each venue's cumulative value on day D
\* is the sum of that venue's daily totals for the days <= D and the sum of the
\* rates of the raw events of that (asset, venue) on the days of the common
\* window up to D, start..D; no other venue's or asset's event is counted.
C2_CumulativeWithinWindow ==
    Returned =>
        \A r \in ResultRows :
            /\ r.CumulativeFunding_a = DailyTotalsUpTo(daily_sum, asset, r.Exchange_a, r.Date)
            /\ r.CumulativeFunding_b = DailyTotalsUpTo(daily_sum, asset, r.Exchange_b, r.Date)
            /\ r.CumulativeFunding_a
                  = DirectSum(df_tmp, asset, r.Exchange_a, CommonStart, r.Date)
            /\ r.CumulativeFunding_b
                  = DirectSum(df_tmp, asset, r.Exchange_b, CommonStart, r.Date)

\* a result row whose two venues both accumulated more than one day
C2_Witness ==
    /\ pc = "pd_return"
    /\ \E r \in ResultRows :
          /\ r.CumulativeFunding_a # r.DailyFunding_a
          /\ r.CumulativeFunding_b # r.DailyFunding_b

\* C3: in every result row Exchange_a < Exchange_b in lexicographic order; the
\* result holds no mirrored pair of rows (X, Y) and (Y, X) for the same asset
\* and day, and no self-paired row (X, X).
C3_CanonicalPairOrder ==
    Returned =>
        \A r \in ResultRows :
            /\ StrLT(r.Exchange_a, r.Exchange_b)
            /\ r.Exchange_a # r.Exchange_b
            /\ ~ \E q \in ResultRows :
                    /\ q.Base = r.Base /\ q.Date = r.Date
                    /\ q.Exchange_a = r.Exchange_b /\ q.Exchange_b = r.Exchange_a

\* rows were returned from a join that met both venues on a common day, hence
\* produced the self pairs and both orders
C3_Witness ==
    /\ pc = "pd_return"
    /\ df_to_display # <<>>
    /\ \E i, j \in 1..Len(daily_sum) :
          /\ daily_sum[i].Date = daily_sum[j].Date
          /\ daily_sum[i].Exchange = exchange_a
          /\ daily_sum[j].Exchange = exchange_b

\* C4: when both venues have events for the asset, process_data aggregates
\* exactly the events of the closed window [start, end], start the later of the
\* two first days and end the earlier of the two last days: the filtered
\* subset, every daily total, every cumulative total and every result row use
\* the events of that window and no other.
C4_AggregatesExactlyTheWindow ==
    (Returned /\ BothHaveEvents) =>
        \A start \in {CommonStart}, end \in {CommonEnd} :
            /\ min_date = start
            /\ max_date = end
            /\ subset = SelectSeq(df_tmp, LAMBDA r :
                            /\ r.Base = asset
                            /\ r.Exchange \in {exchange_a, exchange_b}
                            /\ start <= r.Date /\ r.Date <= end)
            /\ \A e \in {exchange_a, exchange_b} :
                   {daily_sum[i].Date :
                        i \in {j \in 1..Len(daily_sum) : daily_sum[j].Exchange = e}}
                       = {d \in DaysOf(df_tmp, asset, e) : start <= d /\ d <= end}
            /\ \A i \in 1..Len(daily_sum) :
                   /\ daily_sum[i].DailyFunding
                         = DirectSum(df_tmp, asset, daily_sum[i].Exchange,
                                     daily_sum[i].Date, daily_sum[i].Date)
                   /\ daily_sum[i].CumulativeFunding
                         = DirectSum(df_tmp, asset, daily_sum[i].Exchange,
                                     start, daily_sum[i].Date)
            /\ \A r \in ResultRows : start <= r.Date /\ r.Date <= end

\* one venue has an event before the window, the other one after it, and
\* rows were returned
C4_Witness ==
    /\ pc = "pd_return"
    /\ BothHaveEvents
    /\ df_to_display # <<>>
    /\ \E d \in DaysOf(df_tmp, asset, exchange_a) : d < CommonStart
    /\ \E d \in DaysOf(df_tmp, asset, exchange_b) : d > CommonEnd

\* the cases of C5: a venue without events, disjoint day ranges, no common day
NoCommonDayCase ==
    \/ ~ HasEvents(df_tmp, asset, exchange_a)
    \/ ~ HasEvents(df_tmp, asset, exchange_b)
    \/ CommonStart > CommonEnd
    \/ DaysOf(df_tmp, asset, exchange_a) \cap DaysOf(df_tmp, asset, exchange_b) = {}

\* C5: process_data returns, without an exception and with zero rows, whenever
\* either venue argument has no events for the asset, whenever the two day
\* ranges do not overlap, and whenever they overlap without a common day.
C5_EmptyResultWithoutError ==
    (Returned /\ NoCommonDayCase) => (df_to_display = <<>> /\ exception = "none")

\* the two day ranges overlap, both venues have events inside the window, and
\* no day is common
C5_Witness ==
    /\ pc = "pd_return"
    /\ BothHaveEvents
    /\ CommonStart < CommonEnd
    /\ \E i, j \in 1..Len(daily_sum) :
          daily_sum[i].Exchange = exchange_a /\ daily_sum[j].Exchange = exchange_b
    /\ DaysOf(df_tmp, asset, exchange_a) \cap DaysOf(df_tmp, asset, exchange_b) = {}

\* C6: in every result row along_bshort = CumulativeFunding_b - CumulativeFunding_a
\* and blong_ashort = CumulativeFunding_a - CumulativeFunding_b, each the
\* negation of the other.
C6_AdvantagesAreNegations ==
    Returned =>
        \A r \in ResultRows :
            /\ r.along_bshort = r.CumulativeFunding_b - r.CumulativeFunding_a
            /\ r.blong_ashort = r.CumulativeFunding_a - r.CumulativeFunding_b
            /\ r.along_bshort = 0 - r.blong_ashort

\* a returned row whose two cumulative values differ
C6_Witness ==
    /\ pc = "pd_return"
    /\ \E r \in ResultRows : r.along_bshort # 0 /\ r.along_bshort # r.blong_ashort

-----------------------------------------------------------------------------
(* Claims about the script *)

AssetsOf(t) == {t[i].Base : i \in 1..Len(t)}

VenuesOf(t, a) == {t[i].Exchange : i \in {j \in 1..Len(t) : t[j].Base = a}}

\* the query parameters of the venue pair have been read and the index computed
PairResolved == pc \in {"pair", "process", "chart", "rendered"}

\* the pair the select box shows before any user choice
PreSelected == exchange_pairs[exchange_pair_index + 1]

LexLeast(S) == CHOOSE x \in S : \A y \in S \ {x} : StrLT(x, y)

\* the lexicographically first pair (a, b), a < b, of a set of venues
LexFirstPair(S) == <<LexLeast(S), LexLeast(S \ {LexLeast(S)})>>

\* C7: whenever the exchange_a and exchange_b parameters name two distinct
\* venues that both have events for the selected asset, in either order and
\* whatever the order of the venues in the table, the pre-selected pair is the
\* pair of exactly those two venues.
C7_QueryPairOverride ==
    (/\ PairResolved
     /\ exchange_a_query # <<>>
     /\ exchange_b_query # <<>>
     /\ exchange_a_query # exchange_b_query
     /\ exchange_a_query[1] \in VenuesOf(df_tmp, asset)
     /\ exchange_b_query[1] \in VenuesOf(df_tmp, asset))
        => {PreSelected[1], PreSelected[2]} = {exchange_a_query[1], exchange_b_query[1]}

\* the default asset has been resolved, from a non-empty list of assets
BaseResolved == sorted_bases # <<>>

\* the asset half of C8
DefaultAssetRule ==
    (BaseResolved /\ base_query = <<>>) =>
        base_default = IF BTC \in AssetsOf(df_tmp) THEN BTC
                       ELSE LexLeast(AssetsOf(df_tmp))

\* C8: with no parameters supplied, the default asset is BTC if it is among
\* the available assets, else the lexicographically first asset, and the
\* default venue pair is the lexicographically first pair (a, b), a < b, of the
\* venues with events for the chosen asset, whatever their order in the table.
C8_SelectionDefaults ==
    /\ DefaultAssetRule
    /\ (/\ PairResolved
        /\ base_query = <<>>
        /\ exchange_a_query = <<>>
        /\ exchange_b_query = <<>>)
           => PreSelected = LexFirstPair(VenuesOf(df_tmp, asset))

\* C9: once the table is loaded no run ends in an unhandled error, whatever
\* the table, the start-date floor and the query parameters.
C9_NoUnhandledErrorAfterLoad ==
    pc = "crashed" => exception = "load_data"

InLog(x) == \E i \in 1..Len(log) : log[i] = x

\* the run ended inside the load, before the start-date input
LoadFailed == pc \in {"stopped", "crashed"} /\ selected_start_date = NaT

\* the pair list of the selected asset has been computed
PairsComputed == asset # <<>> /\ pc # "pairs"

\* process_data and the chart only after a successful load and with a
\* non-empty pair list, the chart after process_data
AggregationGuarded ==
    (InLog("process_data") \/ InLog("st.plotly_chart")) =>
        /\ selected_start_date # NaT
        /\ exchange_pairs # <<>>
        /\ Cardinality(VenuesOf(df_tmp, asset)) >= 2
        /\ log \in {<<"process_data">>, <<"process_data", "st.plotly_chart">>}

\* fewer than two venues for the selected asset: a warning, a stop, and
\* neither aggregation nor chart
EmptySelectionStops ==
    (PairsComputed /\ Cardinality(VenuesOf(df_tmp, asset)) < 2) =>
        (pc = "stopped" /\ log = <<"st.warning", "st.stop">>)

\* C10 (as stated): process_data and the chart only after a successful load
\* and with a non-empty pair list; if loading fails, or the asset has fewer
\* than two venues, the run stops with a notice and neither happens.
C10_StopsWithNotice ==
    /\ AggregationGuarded
    /\ EmptySelectionStops
    /\ LoadFailed => (pc = "stopped" /\ log = <<"st.error", "st.stop">>)

\* C10 (amended): as stated, except that only a FileNotFoundError of the load
\* stops the run with a notice; any other exception of load_data ends the run
\* uncaught, without a notice and also without aggregation or chart.
C10_QueryPathOrdering ==
    /\ AggregationGuarded
    /\ EmptySelectionStops
    /\ LoadFailed =>
          \/ pc = "stopped" /\ log = <<"st.error", "st.stop">> /\ exception = "none"
          \/ pc = "crashed" /\ log = <<>> /\ exception = "load_data"

\* a run that loaded the table, found pairs, aggregated and rendered the chart
C10_Witness ==
    /\ pc = "rendered"
    /\ log = <<"process_data", "st.plotly_chart">>
    /\ exchange_pairs # <<>>

=============================================================================
